---- MODULE Spec2Model ----
(***************************************************************************)
(* A model of the dispatch / collection layer of Compass                   *)
(* (src/mflux/compass/main.py): entry(), the multiprocessing pool running  *)
(* _parallel_map_fun over the sample indices, and collectCompassResults.   *)
(*                                                                         *)
(* Python indices are kept 0-based: sample i is column i of the expression *)
(* matrix and works in the directory sample<i> of the temp directory.      *)
(* A pandas DataFrame is a record [index, cols]: the set of row labels and *)
(* the sequence of its columns, each a record [name, cell] with cell a     *)
(* function from the row labels to values.  Row labels of one table are    *)
(* distinct, and the order of the rows is not modelled.                    *)
(***************************************************************************)
EXTENDS Integers, Sequences, FiniteSets, TLC

(* ------------------------------ bounds -------------------------------- *)
\* samples of the matrix in a collect-only invocation
MaxSamples == 2
\* result files present in the temp directory when a collect-only invocation starts
MaxFiles == 2
\* samples of the matrix in a local run
MaxJobs == 3
\* execution units of the host (multiprocessing.cpu_count())
MaxCpu == 2
\* largest --num-processes value tried
MaxReq == 3

(* --------------------------- data of the model ------------------------ *)
\* the three result tables, in the order the collector treats them
Kinds == <<"reactions", "secretions", "uptake">>
KindSet == {Kinds[k] : k \in 1..Len(Kinds)}

\* header of the expression matrix: sample identifiers in column order
\* (pandas makes the names of the header unique); not in sorted order, so
\* that column order and name order differ
SampleNames == <<"s2", "s1", "s3", "s0", "s4">>

\* expression.columns of a matrix with n samples, 0-based
Columns(n) == [i \in 0..(n - 1) |-> SampleNames[i + 1]]

\* len(data.columns)
NumColumns(columns) == Cardinality(DOMAIN columns)

\* the missing value pandas fills in when it aligns rows (NaN)
NaN == 0 - 1

\* 'sample' + str(i): the directory of job i under the temp directory.
\* (SampleDirAlias: a naming that sends two indices to one directory.)
SampleDirAlias(i) == i % 2
SampleDir(i) == i

\* line 267: the collector builds the same name from the column position
\* (CollectSampleDirShifted: directories counted from sample1.)
CollectSampleDirShifted(i) == IF i = 0 THEN 0 ELSE i - 1
CollectSampleDir(i) == i

(* ------------------------------ DataFrames ---------------------------- *)
\* a column with one value per row label
Col(name, cell) == [name |-> name, cell |-> cell]

\* pd.DataFrame(columns=[sample_name]): no rows, one column
\* (EmptyFrameNoColumn: pd.DataFrame(), a frame without the column.)
EmptyFrameNoColumn(sample_name) == [index |-> {}, cols |-> <<>>]
EmptyFrame(sample_name) ==
    [index |-> {}, cols |-> <<Col(sample_name, [r \in {} |-> NaN])>>]

\* a column aligned to a new row set: the rows it lacks become NaN
Reindex(col, index) ==
    Col(col.name, [r \in index |-> IF r \in DOMAIN col.cell THEN col.cell[r] ELSE NaN])

\* the columns of a list of frames, frame after frame, aligned to index
RECURSIVE AllCols(_, _)
AllCols(frames, index) ==
    IF frames = <<>> THEN <<>>
    ELSE [j \in 1..Len(Head(frames).cols) |-> Reindex(Head(frames).cols[j], index)]
         \o AllCols(Tail(frames), index)

\* pd.concat(frames, axis=1): the union of the row labels, all columns in
\* list order.  Python raises ValueError on an empty list.
\* (ConcatInner: join='inner', the rows common to all frames.)
ConcatRaises(frames) == frames = <<>>
ConcatInner(frames) ==
    LET index == {r \in UNION {frames[j].index : j \in 1..Len(frames)} :
                      \A j \in 1..Len(frames) : r \in frames[j].index}
    IN  [index |-> index, cols |-> AllCols(frames, index)]
Concat(frames) ==
    LET index == UNION {frames[j].index : j \in 1..Len(frames)}
    IN  [index |-> index, cols |-> AllCols(frames, index)]

(* ------------------------------- files -------------------------------- *)
\* A result file of a sample directory: absent, present but not parsable
\* as a table (e.g. an empty file), or a tab-delimited table.
NoTable == [index |-> {}, cols |-> <<>>]
Absent == [state |-> "absent", table |-> NoTable]
Unparsable == [state |-> "unparsable", table |-> NoTable]
TableFile(t) == [state |-> "table", table |-> t]

\* pd.read_table(path, index_col=0) raises for a missing or unparsable file
ReadRaises(file) == file.state # "table"
\* (ReadTableFirstColumn: only the first data column of the file is kept.)
ReadTableFirstColumn(file) ==
    [index |-> file.table.index,
     cols |-> IF file.table.cols = <<>> THEN <<>> ELSE <<file.table.cols[1]>>]
ReadTable(file) == file.table

\* an absent sample directory
NoFiles == [k \in KindSet |-> Absent]
AbsentDir == [exists |-> FALSE, files |-> NoFiles]

\* Contents a result file of the sample named own may have when collection
\* starts, by number: a file that does not parse, tables as the solver
\* writes them (one column named after the sample) over different row
\* sets, a table with a second column (named after another sample), and a
\* table with no data column.
ShapeIds == 1..6
OtherSample(own) == IF own = SampleNames[2] THEN SampleNames[1] ELSE SampleNames[2]
Shape(s, own) ==
    CASE s = 1 -> Unparsable
      [] s = 2 -> TableFile([index |-> {"r1"}, cols |-> <<Col(own, ("r1" :> 1))>>])
      [] s = 3 -> TableFile([index |-> {"r1", "r2"},
                             cols |-> <<Col(own, ("r1" :> 2) @@ ("r2" :> 3))>>])
      [] s = 4 -> TableFile([index |-> {"r2"}, cols |-> <<Col(own, ("r2" :> 4))>>])
      [] s = 5 -> TableFile([index |-> {"r1"},
                             cols |-> <<Col(own, ("r1" :> 1)), Col(OtherSample(own), ("r1" :> 2))>>])
      [] OTHER -> TableFile([index |-> {"r1"}, cols |-> <<>>])

\* a table as the solver contract describes it: exactly one data column,
\* named after the sample
Conformant(file, own) ==
    file.state = "table" => /\ Len(file.table.cols) = 1
                            /\ file.table.cols[1].name = own

(* -------------------------------- state ------------------------------- *)
VARIABLES
    args,        \* the parsed command line: [single_sample, torque_queue, collect,
                 \* num_processes, lambda]
    cpu_count,   \* multiprocessing.cpu_count() of the host
    expression,  \* header of the matrix file --data: 0-based sample names
    tmp,         \* temp directory: sample dir -> [exists, files]
    outdir,      \* output directory: [exists, files]
    pc,          \* position of the main process in entry()
    err,         \* the exception that ended entry(), "" while none
    n_samples,   \* len(data.columns) as read by the running function
    ci, ck,      \* collector loop: sample index, position in Kinds
    gathered,    \* reactions_all, secretions_all, uptake_all: kind -> list
    attempted,   \* kinds whose merge the collector has started
    num_processes, \* args['num_processes'] after clamping; size of the pool
    nextTask,    \* next index the pool's task handler hands out
    workers,     \* worker process -> [pc, job]
    results,     \* results the pool has passed back, in arrival order
    yielded,     \* results the loop of entry() has taken from the iterator
    pbar,        \* tqdm progress count
    raisedJobs,  \* jobs whose solver call raised
    rerun,       \* this is a second invocation over the same directories
    firstOut,    \* the merged tables the first invocation left
    resumed,     \* this collect-only invocation follows a local run that the
                 \* exception of a solver ended
    solved,      \* job -> number of times its solver call returned normally
    started,     \* job -> number of times a worker took it
    writers,     \* sample dir -> jobs that created or wrote in it
    logs,        \* sample dir -> its out.log and err.log (one pair, opened
                 \* and closed together): [present, lines]
    streams,     \* worker -> where its sys.stdout and sys.stderr point
    completed,   \* "COMPASS Completed Successfully" was logged
    reported,    \* the job the failure report of a local run names, None if none
    submissions, \* jobs handed to the queue, in order; the handle of a job is
                 \* its position
    singleRuns,  \* solver calls entry() made in its own process
    rootFiles    \* result files directly in the temp directory

envVars == <<args, cpu_count, expression>>
collectVars == <<n_samples, ci, ck, gathered, attempted>>
runVars == <<rerun, firstOut, resumed>>
entryVars == <<reported, submissions, singleRuns, rootFiles>>
logVars == <<logs, streams>>
poolVars == <<num_processes, nextTask, workers, results, yielded, pbar, raisedJobs, solved,
             started, writers>>
vars == <<args, cpu_count, expression, tmp, outdir, pc, err, n_samples, ci, ck,
          gathered, attempted, num_processes, nextTask, workers, results, yielded, pbar,
          raisedJobs,
          rerun, firstOut, resumed, solved, started, writers, logs, streams, completed, reported,
          submissions, singleRuns, rootFiles>>

\* args['num_processes'] when --num-processes is not given
None == 0 - 1

\* --lambda as a fraction num/den with den > 0
Frac(num, den) == [num |-> num, den |-> den]

\* lines 108-111: lambda below 0 or above 1 is an error of the parser
\* (LambdaRejectedAtBounds: the comparisons taken as <= and >=.)
LambdaRejectedAtBounds(lambda) == lambda.num <= 0 \/ lambda.num >= lambda.den
LambdaRejected(lambda) == lambda.num < 0 \/ lambda.num > lambda.den

\* lines 148-166: what entry() does with the parsed arguments, the first
\* test that succeeds deciding
\* (ModeCollectFirst: --collect tested before the two others.)
ModeCollectFirst(a) ==
    IF a.collect THEN "collect"
    ELSE IF a.single_sample # None THEN "single"
    ELSE IF a.torque_queue # {} THEN "torque"
    ELSE "local"
Mode(a) ==
    IF a.single_sample # None THEN "single"
    ELSE IF a.torque_queue # {} THEN "torque"
    ELSE IF a.collect THEN "collect"
    ELSE "local"

NoOutput == [written |-> FALSE, table |-> NoTable]
Written(t) == [written |-> TRUE, table |-> t]

(* ----------------------- collectCompassResults ------------------------ *)
\* the function returns: collect-only mode returns from entry(), a local
\* run goes on to log its completion
CollectReturn == IF Mode(args) = "collect" THEN "done" ELSE "completed"

\* lines 252-253: create the output directory when it is not there; the
\* creation may fail (OSError)
CollectMakedirs ==
    /\ pc = "collect"
    /\ \/ /\ outdir.exists
          /\ pc' = "collect_matrix"
          /\ UNCHANGED <<outdir, err>>
       \/ /\ ~outdir.exists
          /\ outdir' = [outdir EXCEPT !.exists = TRUE]
          /\ pc' = "collect_matrix"
          /\ UNCHANGED err
       \/ /\ ~outdir.exists
          /\ pc' = "raised"
          /\ err' = "OSError: makedirs"
          /\ UNCHANGED outdir
    /\ UNCHANGED <<envVars, entryVars, tmp, collectVars, poolVars, runVars, completed, logVars>>

\* lines 256-261: read the matrix header, start with three empty lists
CollectReadMatrix ==
    /\ pc = "collect_matrix"
    /\ n_samples' = NumColumns(expression)
    /\ gathered' = [k \in KindSet |-> <<>>]
    /\ ci' = 0
    /\ ck' = 1
    /\ pc' = IF NumColumns(expression) = 0 THEN "collect_write" ELSE "collect_gather"
    /\ UNCHANGED <<envVars, entryVars, tmp, outdir, err, attempted, poolVars, runVars, completed, logVars>>

\* lines 269-277 (and 279-287, 289-297): the table of one kind of one
\* sample, or the empty frame named after the sample when reading raises.
\* One try block per kind.
\* (FrameOneTry: a single try block around the three reads of a sample, so
\* that the first failure also replaces the kinds read after it.)
FrameOneTry(dir, k, sample_name) ==
    IF \E j \in 1..Len(Kinds) :
           /\ ReadRaises(dir.files[Kinds[j]])
           /\ \E m \in j..Len(Kinds) : Kinds[m] = k
    THEN EmptyFrame(sample_name)
    ELSE ReadTable(dir.files[k])
Frame(dir, k, sample_name) ==
    IF ReadRaises(dir.files[k]) THEN EmptyFrame(sample_name)
    ELSE ReadTable(dir.files[k])

\* lines 264-297: one try block of the loop body: kind ck of sample ci
CollectGather ==
    /\ pc = "collect_gather"
    /\ LET k == Kinds[ck]
           sample_name == expression[ci]
           sample_dir == tmp[CollectSampleDir(ci)]
       IN  gathered' = [gathered EXCEPT ![k] = Append(@, Frame(sample_dir, k, sample_name))]
    /\ IF ck < Len(Kinds)
       THEN /\ ck' = ck + 1
            /\ UNCHANGED <<ci, pc>>
       ELSE /\ ck' = 1
            /\ ci' = ci + 1
            /\ pc' = IF ci + 1 < n_samples THEN "collect_gather" ELSE "collect_write"
    /\ UNCHANGED <<envVars, entryVars, tmp, outdir, err, n_samples, attempted, poolVars, runVars,
                   completed, logVars>>

\* DataFrame.to_csv(path, sep="\t"): the file is replaced by the table
\* (ToCsvAppend: mode='a', the table is added to the file's.)
ToCsvAppend(old, t) ==
    IF old.written THEN Written(Concat(<<old.table, t>>)) ELSE Written(t)
ToCsv(old, t) == Written(t)

\* lines 300-302 (304-306, 308-310): merge the list of kind ck and write
\* it.  pd.concat raises on an empty list; the write may fail (IOError).
CollectWrite ==
    /\ pc = "collect_write"
    /\ LET k == Kinds[ck]
       IN  /\ attempted' = attempted \cup {k}
           /\ IF ConcatRaises(gathered[k])
              THEN /\ pc' = "raised"
                   /\ err' = "ValueError: No objects to concatenate"
                   /\ UNCHANGED <<outdir, ck>>
              ELSE \/ /\ outdir' = [outdir EXCEPT
                                       !.files[k] = ToCsv(@, Concat(gathered[k]))]
                      /\ IF ck < Len(Kinds)
                         THEN ck' = ck + 1 /\ UNCHANGED pc
                         ELSE ck' = 1 /\ pc' = CollectReturn
                      /\ UNCHANGED err
                   \/ /\ pc' = "raised"
                      /\ err' = "IOError: to_csv"
                      /\ UNCHANGED <<outdir, ck>>
    /\ UNCHANGED <<envVars, entryVars, tmp, n_samples, ci, gathered, poolVars, runVars, completed, logVars>>

(* ------------------------------- entry -------------------------------- *)
\* lines 91-113, 120: parseArgs; parser.error prints the message and exits
ParseArgs ==
    /\ pc = "parse_args"
    /\ IF LambdaRejected(args.lambda)
       THEN /\ pc' = "exit"
            /\ err' = "parser.error: lambda"
       ELSE /\ pc' = "start"
            /\ UNCHANGED err
    /\ UNCHANGED <<envVars, entryVars, tmp, outdir, collectVars, poolVars, runVars,
                   completed, logVars>>

\* lines 163-166: --collect
EntryCollect ==
    /\ pc = "start"
    /\ Mode(args) = "collect"
    /\ pc' = "collect"
    /\ UNCHANGED <<envVars, entryVars, tmp, outdir, err, collectVars, poolVars, runVars, completed, logVars>>

\* the command is run a second time with the same arguments, after a
\* collect-only invocation that returned normally
Reinvoke ==
    /\ pc = "done"
    /\ Mode(args) = "collect"
    /\ ~rerun
    /\ rerun' = TRUE
    /\ firstOut' = outdir.files
    /\ UNCHANGED resumed
    /\ pc' = "parse_args"
    /\ attempted' = {}
    /\ UNCHANGED <<envVars, entryVars, tmp, outdir, err, n_samples, ci, ck, gathered, poolVars,
                   completed, logVars>>

(* ------------------------- collect-only runs -------------------------- *)
NoOutputs == [k \in KindSet |-> NoOutput]

\* the capture files of a sample directory
NoLog == [present |-> FALSE, lines |-> <<>>]
\* what an earlier run wrote in them
StaleLine == 0 - 1
StaleLog == [present |-> TRUE, lines |-> <<StaleLine>>]

\* where the standard streams of a process point: the streams it was
\* started with, a file that has been closed, or the open capture files of
\* a sample directory (the index of the directory)
Terminal == 0 - 1
ClosedFile == 0 - 2

\* what the pool variables hold while no pool exists
NoPool ==
    /\ num_processes = None
    /\ nextTask = 0
    /\ workers = <<>>
    /\ results = <<>>
    /\ yielded = 0
    /\ pbar = 0
    /\ raisedJobs = {}
    /\ solved = <<>>
    /\ started = <<>>
    /\ writers = <<>>
    /\ streams = <<>>

\* the temp directory of n samples holding the files of the pairs P with
\* the shapes f; the directories in A (all without files) do not exist
TempDir(n, P, f, A) ==
    [i \in 0..(n - 1) |->
        [exists |-> i \notin A,
         files |-> [k \in KindSet |->
                       IF <<i, k>> \in P THEN Shape(f[<<i, k>>], SampleNames[i + 1])
                       ELSE Absent]]]

InitCollect ==
    /\ args = [single_sample |-> None, torque_queue |-> {}, collect |-> TRUE,
               num_processes |-> None, lambda |-> Frac(0, 1)]
    /\ cpu_count = 1
    /\ \E n \in 0..MaxSamples :
         /\ expression = Columns(n)
         /\ \E P \in SUBSET ((0..(n - 1)) \X KindSet) :
              /\ Cardinality(P) <= MaxFiles
              /\ \E f \in [P -> ShapeIds] :
                 \E A \in SUBSET {i \in 0..(n - 1) : \A k \in KindSet : <<i, k>> \notin P} :
                    tmp = TempDir(n, P, f, A)
    /\ outdir \in {[exists |-> e, files |-> NoOutputs] : e \in BOOLEAN}
    /\ logs = [i \in DOMAIN tmp |-> NoLog]
    /\ pc = "parse_args"
    /\ err = ""
    /\ n_samples = 0
    /\ ci = 0
    /\ ck = 1
    /\ gathered = [k \in KindSet |-> <<>>]
    /\ attempted = {}
    /\ NoPool
    /\ rerun = FALSE
    /\ firstOut = NoOutputs
    /\ resumed = FALSE
    /\ completed = FALSE
    /\ reported = None
    /\ submissions = <<>>
    /\ singleRuns = 0
    /\ rootFiles = NoFiles

NextCollect ==
    \/ ParseArgs
    \/ EntryCollect
    \/ CollectMakedirs
    \/ CollectReadMatrix
    \/ CollectGather
    \/ CollectWrite
    \/ Reinvoke

SpecCollect == InitCollect /\ [][NextCollect]_vars

(* ----------------------------- local run ------------------------------ *)
\* lines 169-173: the number of processes of the pool
\* (UnclampedProcesses: without the comparison of lines 172-173.)
UnclampedProcesses(requested, cpus) == IF requested = None THEN cpus ELSE requested
EffectiveProcesses(requested, cpus) ==
    IF requested = None THEN cpus
    ELSE IF requested > cpus THEN cpus ELSE requested

\* lines 168-173: neither --single-sample, --torque-queue nor --collect
EntryLocalClamp ==
    /\ pc = "start"
    /\ Mode(args) = "local"
    /\ num_processes' = EffectiveProcesses(args.num_processes, cpu_count)
    /\ pc' = "read_matrix"
    /\ UNCHANGED <<envVars, entryVars, tmp, outdir, err, collectVars, nextTask, workers, results,
                   yielded, pbar, raisedJobs, solved, started, writers, runVars, completed, logVars>>

\* lines 176-177
EntryReadMatrix ==
    /\ pc = "read_matrix"
    /\ n_samples' = NumColumns(expression)
    /\ pc' = "create_pool"
    /\ UNCHANGED <<envVars, entryVars, tmp, outdir, err, ci, ck, gathered, attempted, poolVars,
                   runVars, completed, logVars>>

Idle == [pc |-> "idle", job |-> None]

\* lines 185-198: multiprocessing.Pool(n) raises ValueError for n < 1 and
\* otherwise starts n worker processes; imap_unordered queues the tasks
\* 0..n_samples-1 and tqdm starts at 0
EntryCreatePool ==
    /\ pc = "create_pool"
    /\ IF num_processes < 1
       THEN /\ pc' = "raised"
            /\ err' = "ValueError: Number of processes must be at least 1"
            /\ UNCHANGED <<workers, solved, started, writers, streams>>
       ELSE /\ pc' = "dispatch"
            /\ workers' = [w \in 1..num_processes |-> Idle]
            /\ solved' = [i \in 0..(n_samples - 1) |-> 0]
            /\ started' = [i \in 0..(n_samples - 1) |-> 0]
            /\ writers' = [i \in 0..(n_samples - 1) |-> {}]
            /\ streams' = [w \in 1..num_processes |-> Terminal]
            /\ UNCHANGED err
    /\ UNCHANGED <<envVars, entryVars, tmp, outdir, collectVars, num_processes, nextTask, results,
                   yielded, pbar, raisedJobs, runVars, completed, logs>>

\* tqdm counts what the loop body is run for: the results (line 198-199),
\* not the tasks handed to the pool
\* (ProgressOnSubmitCounted: tqdm wrapped around range(n_samples).)
ProgressOnSubmitCounted(count) == count + 1
ProgressOnSubmit(count) == count
ProgressOnResult(count) == count + 1

\* an idle worker process takes the next task of the pool's task queue
WorkerTake(w) ==
    /\ pc = "dispatch"
    /\ workers[w].pc = "idle"
    /\ nextTask < n_samples
    /\ workers' = [workers EXCEPT ![w] = [pc |-> "makedirs", job |-> nextTask]]
    /\ started' = [started EXCEPT ![nextTask] = @ + 1]
    /\ nextTask' = nextTask + 1
    /\ pbar' = ProgressOnSubmit(pbar)
    /\ UNCHANGED <<envVars, entryVars, tmp, outdir, pc, err, collectVars, num_processes, results,
                   yielded, raisedJobs, solved, writers, runVars, completed, logVars>>

\* lines 216-217: os.makedirs only when the directory is not there
\* (RecreateDir: the directory is emptied and made anew.)
RecreateDir(dir) == [exists |-> TRUE, files |-> NoFiles]
MakeDirs(dir) == IF dir.exists THEN dir ELSE [dir EXCEPT !.exists = TRUE]

\* lines 214-217: _parallel_map_fun creates the directory of its sample
WorkerMakedirs(w) ==
    /\ pc = "dispatch"
    /\ workers[w].pc = "makedirs"
    /\ LET i == workers[w].job
           sample_dir == SampleDir(i)
       IN  /\ tmp' = [tmp EXCEPT ![sample_dir] = MakeDirs(@)]
           /\ writers' = IF tmp[sample_dir].exists THEN writers
                         ELSE [writers EXCEPT ![sample_dir] = @ \cup {i}]
    /\ workers' = [workers EXCEPT ![w].pc = "open_logs"]
    /\ UNCHANGED <<envVars, entryVars, outdir, pc, err, collectVars, num_processes, nextTask, results,
                   yielded, pbar, raisedJobs, solved, started, runVars, completed, logVars>>

\* line 221: open(..., 'w') creates the file or empties the one there
\* (OpenForAppending: open(..., 'a').)
OpenForAppending(log) == [present |-> TRUE, lines |-> log.lines]
OpenForWriting(log) == [present |-> TRUE, lines |-> <<>>]

\* lines 219-225: out.log and err.log of the sample directory are opened
\* for writing and take the worker's standard streams
WorkerOpenLogs(w) ==
    /\ pc = "dispatch"
    /\ workers[w].pc = "open_logs"
    /\ LET i == workers[w].job
           sample_dir == SampleDir(i)
       IN  /\ tmp[sample_dir].exists
           /\ logs' = [logs EXCEPT ![sample_dir] = OpenForWriting(@)]
           /\ streams' = [streams EXCEPT ![w] = sample_dir]
           /\ writers' = [writers EXCEPT ![sample_dir] = @ \cup {i}]
    /\ workers' = [workers EXCEPT ![w].pc = "solve"]
    /\ UNCHANGED <<envVars, entryVars, tmp, outdir, pc, err, collectVars, num_processes, nextTask,
                   results, yielded, pbar, raisedJobs, solved, started, runVars, completed>>

\* What singleSampleCompass may do (src/mflux/compass/algorithm.py, not
\* modelled further): raise, write its three tables, or return having
\* written only reactions.txt.
SolverOutcomes == {"raise", "full", "partial"}

\* the table the solver writes for sample i of the matrix: one column,
\* named after the sample, holding values that tell the job
SolverTable(i) ==
    LET index == IF i % 2 = 0 THEN {"r1"} ELSE {"r1", "r2"}
    IN  [index |-> index, cols |-> <<Col(expression[i], [r \in index |-> i + 1])>>]

SolverWrites(files, i, outcome) ==
    [k \in KindSet |->
        IF outcome = "full" \/ (outcome = "partial" /\ k = "reactions")
        THEN TableFile(SolverTable(i))
        ELSE files[k]]

\* lines 227-232: the solver call of the job, in the job's directory; the
\* pool passes its return or its exception back as the job's result.  What
\* the solver prints goes where the worker's streams point; leaving the
\* with block (line 221) closes the files, the streams still point at them
WorkerSolve(w) ==
    /\ pc = "dispatch"
    /\ workers[w].pc = "solve"
    /\ LET i == workers[w].job
           sample_dir == SampleDir(i)
       IN  \E outcome \in SolverOutcomes :
              IF outcome = "raise"
              THEN /\ raisedJobs' = raisedJobs \cup {i}
                   /\ results' = Append(results, [job |-> i, ok |-> FALSE])
                   /\ UNCHANGED <<tmp, solved, writers>>
              ELSE /\ tmp' = [tmp EXCEPT ![sample_dir].files = SolverWrites(@, i, outcome)]
                   /\ writers' = [writers EXCEPT ![sample_dir] = @ \cup {i}]
                   /\ solved' = [solved EXCEPT ![i] = @ + 1]
                   /\ results' = Append(results, [job |-> i, ok |-> TRUE])
                   /\ UNCHANGED raisedJobs
    /\ logs' = [logs EXCEPT ![streams[w]].lines = Append(@, workers[w].job)]
    /\ streams' = [streams EXCEPT ![w] = ClosedFile]
    /\ workers' = [workers EXCEPT ![w] = Idle]
    /\ UNCHANGED <<envVars, entryVars, outdir, pc, err, collectVars, num_processes, nextTask, yielded,
                   pbar, started, runVars, completed>>

\* line 198: the iterator re-raises in entry() the exception of a job
\* (SkipFailedSample: the exception is dropped and the loop goes on.)
SkipFailedSample == "dispatch"
OnSolverFailure == "raised"

\* lines 198-199, 213-232: what the exception leaving entry() tells about
\* the job.  The iterator re-raises the exception object of the solver as
\* it is; neither _parallel_map_fun nor the loop adds the index or logs it.
ReportedJob(result) == None

\* lines 198-199: the loop takes the next result that has arrived; a
\* result is counted, an exception leaves entry()
MainObserve ==
    /\ pc = "dispatch"
    /\ results # <<>>
    /\ results' = Tail(results)
    /\ yielded' = yielded + 1
    /\ IF Head(results).ok
       THEN /\ pbar' = ProgressOnResult(pbar)
            /\ UNCHANGED <<pc, err, reported>>
       ELSE /\ pc' = OnSolverFailure
            /\ err' = IF OnSolverFailure = "raised" THEN "SolverFailure" ELSE err
            /\ reported' = ReportedJob(Head(results))
            /\ UNCHANGED pbar
    /\ UNCHANGED <<envVars, submissions, singleRuns, rootFiles, tmp, outdir, collectVars,
                   num_processes, nextTask, workers, raisedJobs, solved, started, writers, runVars, completed, logVars>>

\* line 198: imap_unordered over range(n_samples) stops after it has
\* yielded the result of every one of the n_samples tasks
\* (AllHandedOut: it stops once every task has been handed to a worker.)
AllHandedOut(observed, handed, n) == handed = n
IteratorExhausted(observed, handed, n) == observed = n

\* lines 198-205: the iterator is exhausted after n_samples results; the
\* collection starts
MainLoopEnd ==
    /\ pc = "dispatch"
    /\ IteratorExhausted(yielded, nextTask, n_samples)
    /\ pc' = "collect"
    /\ UNCHANGED <<envVars, entryVars, tmp, outdir, err, collectVars, poolVars, runVars, completed, logVars>>

\* lines 207-210
EntryCompleted ==
    /\ pc = "completed"
    /\ completed' = TRUE
    /\ pc' = "done"
    /\ UNCHANGED <<envVars, entryVars, tmp, outdir, err, collectVars, poolVars, runVars, logVars>>

(* ------------------------- single-sample mode ------------------------- *)
\* lines 148-153: --single-sample N runs the solver for sample N in this
\* process, with the temp directory itself as its directory, and returns.
\* The solver cannot succeed for an index the matrix does not have.
EntrySingleSample ==
    /\ pc = "start"
    /\ Mode(args) = "single"
    /\ singleRuns' = singleRuns + 1
    /\ \E outcome \in SolverOutcomes :
          IF outcome = "raise"
          THEN /\ pc' = "raised"
               /\ err' = "SolverFailure: single sample"
               /\ UNCHANGED rootFiles
          ELSE /\ args.single_sample \in DOMAIN expression
               /\ rootFiles' = SolverWrites(rootFiles, args.single_sample, outcome)
               /\ pc' = "done"
               /\ UNCHANGED err
    /\ UNCHANGED <<envVars, reported, submissions, tmp, outdir, collectVars, poolVars,
                   runVars, completed, logVars>>

(* ------------------------- submit-to-queue mode ----------------------- *)
\* lines 155-161: --torque-queue hands the run to submitCompassTorque and
\* returns when that returns
EntryTorque ==
    /\ pc = "start"
    /\ Mode(args) = "torque"
    /\ n_samples' = NumColumns(expression)
    /\ pc' = "torque_submit"
    /\ UNCHANGED <<envVars, entryVars, tmp, outdir, err, ci, ck, gathered, attempted,
                   poolVars, runVars, completed, logVars>>

\* submitCompassTorque (mflux/compass/torque.py), after section 4.3 of the
\* specification: one submission per sample, in index order, each with
\* its sample directory prepared; a submission error ends the call
TorqueSubmitSample ==
    /\ pc = "torque_submit"
    /\ Len(submissions) < n_samples
    /\ LET i == Len(submissions)
       IN  \/ /\ tmp' = [tmp EXCEPT ![SampleDir(i)] = MakeDirs(@)]
              /\ submissions' = Append(submissions,
                                       [kind |-> "sample", index |-> i, deps |-> {}])
              /\ UNCHANGED <<pc, err>>
           \/ /\ pc' = "raised"
              /\ err' = "SubmissionError"
              /\ UNCHANGED <<tmp, submissions>>
    /\ UNCHANGED <<envVars, reported, singleRuns, rootFiles, outdir, collectVars,
                   poolVars, runVars, completed, logVars>>

\* the handles the collection job is made to wait for
\* (DepsLastOnly: the job waits for the last sample job only.)
DepsLastOnly(subs) == {h \in 1..Len(subs) : h = Len(subs)}
CollectDeps(subs) == {h \in 1..Len(subs) : subs[h].kind = "sample"}

\* after the last sample job, one job that runs the collection once all
\* sample jobs have completed; the call returns without waiting (line 161)
TorqueSubmitCollect ==
    /\ pc = "torque_submit"
    /\ Len(submissions) = n_samples
    /\ \/ /\ submissions' = Append(submissions,
                                    [kind |-> "collect", index |-> None,
                                     deps |-> CollectDeps(submissions)])
          /\ pc' = "done"
          /\ UNCHANGED err
       \/ /\ pc' = "raised"
          /\ err' = "SubmissionError"
          /\ UNCHANGED submissions
    /\ UNCHANGED <<envVars, reported, singleRuns, rootFiles, tmp, outdir, collectVars,
                   poolVars, runVars, completed, logVars>>

\* After a local run that the exception of a solver ended, the command is
\* run with --collect over the same directories: a new process, in which
\* only the record of the solver calls that returned is kept
CollectAfterFailure ==
    /\ pc = "raised"
    /\ err = "SolverFailure"
    /\ args' = [args EXCEPT !.collect = TRUE, !.num_processes = None]
    /\ resumed' = TRUE
    /\ pc' = "parse_args"
    /\ err' = ""
    /\ reported' = None
    /\ num_processes' = None
    /\ nextTask' = 0
    /\ workers' = <<>>
    /\ results' = <<>>
    /\ yielded' = 0
    /\ pbar' = 0
    /\ raisedJobs' = {}
    /\ started' = <<>>
    /\ writers' = <<>>
    /\ streams' = <<>>
    /\ UNCHANGED <<cpu_count, expression, submissions, singleRuns, rootFiles, tmp, outdir,
                   collectVars, rerun, firstOut, solved, completed, logs>>

\* values of --lambda tried: below 0, the two ends of [0, 1], above 1
Lambdas == {Frac(0 - 1, 2), Frac(0, 1), Frac(1, 1), Frac(3, 2)}

\* a sample directory an earlier run left, with a table of that run; when
\* a run starts either no sample directory is there or all are such
StaleDir(own) ==
    [exists |-> TRUE,
     files |-> [k \in KindSet |->
                   IF k = "uptake"
                   THEN TableFile([index |-> {"r2"}, cols |-> <<Col(own, ("r2" :> 4))>>])
                   ELSE Absent]]

Init ==
    /\ args \in {[single_sample |-> ss, torque_queue |-> q, collect |-> c,
                  num_processes |-> r, lambda |-> l] :
                    ss \in {None, 0}, q \in {{}, {"batch"}}, c \in BOOLEAN,
                    r \in {None} \cup 0..MaxReq, l \in Lambdas}
    /\ Mode(args) # "local" => args.num_processes = None
    /\ cpu_count \in 1..MaxCpu
    /\ Mode(args) # "local" => cpu_count = 1
    /\ \E n \in 0..MaxJobs :
         /\ expression = Columns(n)
         \* lambda is only passed on to the solver (lines 151, 159, 182): the
         \* accepted value other than the default is tried on one sample
         /\ args.lambda # Frac(0, 1) => n <= 1
         /\ \E m \in {0, n} :
               tmp = [i \in 0..(n - 1) |->
                         IF i < m THEN StaleDir(SampleNames[i + 1]) ELSE AbsentDir]
    /\ outdir \in {[exists |-> e, files |-> NoOutputs] : e \in BOOLEAN}
    /\ logs = [i \in DOMAIN tmp |-> IF tmp[i].exists THEN StaleLog ELSE NoLog]
    /\ pc = "parse_args"
    /\ err = ""
    /\ n_samples = 0
    /\ ci = 0
    /\ ck = 1
    /\ gathered = [k \in KindSet |-> <<>>]
    /\ attempted = {}
    /\ NoPool
    /\ rerun = FALSE
    /\ firstOut = NoOutputs
    /\ resumed = FALSE
    /\ completed = FALSE
    /\ reported = None
    /\ submissions = <<>>
    /\ singleRuns = 0
    /\ rootFiles = NoFiles

Next ==
    \/ ParseArgs
    \/ EntrySingleSample
    \/ EntryTorque
    \/ TorqueSubmitSample
    \/ TorqueSubmitCollect
    \/ EntryCollect
    \/ EntryLocalClamp
    \/ EntryReadMatrix
    \/ EntryCreatePool
    \/ \E w \in DOMAIN workers : WorkerTake(w)
    \/ \E w \in DOMAIN workers : WorkerMakedirs(w)
    \/ \E w \in DOMAIN workers : WorkerOpenLogs(w)
    \/ \E w \in DOMAIN workers : WorkerSolve(w)
    \/ MainObserve
    \/ MainLoopEnd
    \/ CollectMakedirs
    \/ CollectReadMatrix
    \/ CollectGather
    \/ CollectWrite
    \/ EntryCompleted
    \/ Reinvoke
    \/ CollectAfterFailure

Spec == Init /\ [][Next]_vars

\* The steps of the main process of one invocation, and those of worker w
MainStep ==
    \/ ParseArgs
    \/ EntrySingleSample
    \/ EntryTorque
    \/ TorqueSubmitSample
    \/ TorqueSubmitCollect
    \/ EntryCollect
    \/ EntryLocalClamp
    \/ EntryReadMatrix
    \/ EntryCreatePool
    \/ MainObserve
    \/ MainLoopEnd
    \/ CollectMakedirs
    \/ CollectReadMatrix
    \/ CollectGather
    \/ CollectWrite
    \/ EntryCompleted

WorkerStep(w) ==
    /\ w \in DOMAIN workers
    /\ (WorkerTake(w) \/ WorkerMakedirs(w) \/ WorkerOpenLogs(w) \/ WorkerSolve(w))

\* The operating system lets every process run that can: the main process
\* and each worker process of the pool take their next step in the end.
\* Nothing makes the user run the command again.
SpecFair ==
    /\ Init
    /\ [][Next]_vars
    /\ WF_vars(MainStep)
    /\ \A w \in 1..MaxCpu : WF_vars(WorkerStep(w))

(* ====================== claims about collection ======================= *)
\* the file of kind k in the directory of sample i, and whether it reads
FileOf(i, k) == tmp[i].files[k]
Readable(i, k) == FileOf(i, k).state = "table"
Samples == DOMAIN expression
CollectionEnded == pc \in {"done", "raised", "completed"}
OutputErrors == {"OSError: makedirs", "IOError: to_csv"}

\* every table present in the temp directory is as the solver writes it
AllConformant == \A i \in Samples : \A k \in KindSet : Conformant(FileOf(i, k), expression[i])

\* the names of the columns of a table, as a 0-based list
ColumnNames(t) == [j \in 0..(Len(t.cols) - 1) |-> t.cols[j + 1].name]

\* number of columns sample i contributes to the merged table of kind k,
\* and the position before its first column
Width(i, k) == IF Readable(i, k) THEN Len(FileOf(i, k).table.cols) ELSE 1
RECURSIVE Offset(_, _)
Offset(i, k) == IF i = 0 THEN 0 ELSE Offset(i - 1, k) + Width(i - 1, k)

\* C1: whatever sample directories are empty or absent, collection does
\* not raise (an output directory or file that cannot be written aside),
\* and every merged table written has exactly one column per sample, named
\* after the samples in matrix order, when the tables present are as the
\* solver writes them.  Stated for every number of samples, zero included.
C1_CompletesWithAllColumns ==
    /\ Mode(args) = "collect" /\ pc = "raised" => err \in OutputErrors
    /\ \A k \in KindSet :
          outdir.files[k].written /\ AllConformant
             => ColumnNames(outdir.files[k].table) = expression

\* C2: in a merged table, a sample whose table was missing or unreadable
\* has one column, named after it, holding only missing values; a sample
\* whose table was readable has the columns of its table, with the table's
\* value in every row the table reports.
C2_ColumnsReproduceTables ==
    \A k \in KindSet :
        outdir.files[k].written =>
            LET m == outdir.files[k].table
            IN  \A i \in Samples :
                  /\ Offset(i, k) + Width(i, k) <= Len(m.cols)
                  /\ IF ~Readable(i, k)
                     THEN /\ m.cols[Offset(i, k) + 1].name = expression[i]
                          /\ \A r \in m.index : m.cols[Offset(i, k) + 1].cell[r] = NaN
                     ELSE LET t == FileOf(i, k).table
                          IN  \A c \in 1..Len(t.cols) :
                                /\ m.cols[Offset(i, k) + c].name = t.cols[c].name
                                /\ \A r \in t.index :
                                      m.cols[Offset(i, k) + c].cell[r] = t.cols[c].cell[r]

C2_Witness ==
    /\ pc = "done"
    /\ \E k \in KindSet : \E i, j \in Samples :
          /\ outdir.files[k].written
          /\ ~Readable(i, k)
          /\ Readable(j, k)
          /\ Cardinality(FileOf(j, k).table.index) = 2
          /\ Len(FileOf(j, k).table.cols) = 1

\* C3: the rows of a merged table are the union of the rows of the
\* readable tables of its kind; every column is defined on exactly these
\* rows, and a row a sample did not report is missing in that sample's
\* columns and in no column of a sample that reported it.
C3_RowsAreUnion ==
    \A k \in KindSet :
        outdir.files[k].written =>
            LET m == outdir.files[k].table
            IN  /\ m.index = UNION {FileOf(i, k).table.index : i \in {j \in Samples : Readable(j, k)}}
                /\ \A c \in 1..Len(m.cols) : DOMAIN m.cols[c].cell = m.index
                /\ \A i \in Samples : Readable(i, k) =>
                      \A c \in 1..Len(FileOf(i, k).table.cols) : \A r \in m.index :
                          (m.cols[Offset(i, k) + c].cell[r] = NaN)
                              <=> (r \notin FileOf(i, k).table.index)

C3_Witness ==
    /\ pc = "done"
    /\ \E k \in KindSet : \E i, j \in Samples :
          /\ outdir.files[k].written
          /\ Readable(i, k) /\ Readable(j, k)
          /\ FileOf(i, k).table.index = {"r1"}
          /\ FileOf(j, k).table.index = {"r2"}
          /\ outdir.files[k].table.index = {"r1", "r2"}

\* C4: every (sample, kind) pair contributes to the gathered lists what
\* its own file alone determines - the table when it reads, the empty
\* frame named after the sample when it does not - a read failure ends
\* nothing, and each list receives exactly one entry per sample treated.
C4_FailureAbsorbedAtPair ==
    pc \in {"collect_gather", "collect_write"} =>
          /\ err = ""
          /\ \A p \in 1..Len(Kinds) :
                Len(gathered[Kinds[p]]) =
                    IF pc = "collect_write" THEN n_samples
                    ELSE ci + (IF p < ck THEN 1 ELSE 0)
          /\ \A k \in KindSet : \A j \in 1..Len(gathered[k]) :
                gathered[k][j] = IF Readable(j - 1, k) THEN FileOf(j - 1, k).table
                                 ELSE EmptyFrame(expression[j - 1])

C4_Witness ==
    /\ pc = "collect_write"
    /\ \E i, j \in Samples : \E k, l \in KindSet :
          /\ i # j /\ k # l
          /\ ~Readable(i, k)
          /\ Readable(i, l)
          /\ Readable(j, k)

\* C9: a second collect-only invocation over the same directories that
\* returns normally leaves the merged tables the first one left.
C9_CollectionIdempotent ==
    rerun /\ pc = "done" => outdir.files = firstOut

C9_Witness ==
    /\ rerun
    /\ pc = "done"
    /\ \E k \in KindSet : outdir.files[k].table.index # {}

\* C10: once the collector has started merging the tables of a matrix with
\* at least one sample, it attempts the merge and the write of all three
\* kinds, whatever happened to an earlier kind.
C10_AllKindsAttempted ==
    CollectionEnded /\ attempted # {} /\ n_samples > 0 => attempted = KindSet

(* ====================== claims about a local run ====================== *)
Jobs == 0..(n_samples - 1)
PoolExists == workers # <<>>
Busy == {w \in DOMAIN workers : workers[w].pc # "idle"}
\* the dispatch loop of a local run has ended and no job's exception left it
LoopEndedClean == PoolExists /\ pc # "dispatch" /\ err # "SolverFailure"

\* C5: in a local run every job is taken at most once and by one worker at
\* a time, a sample directory is created and written by the job of its own
\* index only, and when the loop ends with no solver having raised, every
\* job 0..N-1 has run exactly once and has written in its directory.
C5_EachJobOnceInOwnDirectory ==
    PoolExists =>
        /\ \A i \in Jobs : started[i] <= 1 /\ solved[i] <= started[i]
        /\ \A v, w \in Busy : workers[v].job = workers[w].job => v = w
        /\ \A d \in DOMAIN writers : writers[d] \subseteq {d}
        /\ LoopEndedClean =>
              /\ \A i \in Jobs : started[i] = 1 /\ solved[i] = 1 /\ writers[i] = {i}
              /\ yielded = n_samples

C5_Witness ==
    /\ pc = "done"
    /\ completed
    /\ Len(workers) = 2
    /\ n_samples = 3
    /\ \A i \in Jobs : solved[i] = 1

\* C6: once the solver call of a job has raised, the run is in its dispatch
\* loop or has ended with that exception: it never starts the collection,
\* never writes a merged table and never reports completion; and the loop
\* only ends with a solver failure when a solver did raise.
C6_FailFast ==
    /\ raisedJobs # {} =>
          /\ pc \in {"dispatch", "raised"}
          /\ pc = "raised" => err = "SolverFailure"
          /\ ~completed
          /\ attempted = {}
          /\ \A k \in KindSet : ~outdir.files[k].written
    /\ err = "SolverFailure" => raisedJobs # {} /\ pc = "raised"

C6_Witness ==
    /\ pc = "raised"
    /\ err = "SolverFailure"
    /\ pbar >= 1
    /\ \E i \in Jobs : solved[i] = 1 /\ Readable(i, "reactions")

\* C7: within one invocation the progress count never decreases; it changes only in a step of
\* the main process that takes a successful result from the pool, and then
\* by one; it never exceeds the number of jobs whose solver has returned;
\* and it is N when the loop has ended without a failure.
C7_ProgressCountsCompletions ==
    /\ [](PoolExists =>
            /\ pbar <= Cardinality({i \in Jobs : solved[i] >= 1})
            /\ LoopEndedClean => pbar = n_samples)
    /\ [][\/ pc' = "parse_args"
          \/ /\ pbar' >= pbar
             /\ pbar' # pbar =>
                   /\ pc = "dispatch"
                   /\ results # <<>>
                   /\ Head(results).ok
                   /\ results' = Tail(results)
                   /\ workers' = workers
                   /\ pbar' = pbar + 1]_vars

C7_Witness ==
    /\ pc = "dispatch"
    /\ pbar = 1
    /\ Cardinality({i \in Jobs : solved[i] >= 1}) = 2
    /\ Busy # {}

\* C8: the pool of a local run has min(requested, available) processes -
\* the available number when none is requested - so a request above the
\* available number gives the pool of a request for exactly that number,
\* and never more jobs are executing than that.
C8_PoolSizeClamped ==
    Mode(args) = "local" /\ pc \notin {"parse_args", "exit", "start"} =>
        /\ num_processes = IF args.num_processes = None THEN cpu_count
                           ELSE IF args.num_processes < cpu_count THEN args.num_processes
                           ELSE cpu_count
        /\ PoolExists => Len(workers) = num_processes
        /\ Cardinality(Busy) <= num_processes
        /\ Cardinality(Busy) <= cpu_count

C8_Witness ==
    /\ pc = "dispatch"
    /\ args.num_processes # None
    /\ args.num_processes > cpu_count
    /\ Cardinality(Busy) = cpu_count
    /\ cpu_count = 2

\* C11: a local run that ends because the solver of a job raised reports
\* the index of a job whose solver raised.
C11_FailureNamesJob ==
    err = "SolverFailure" => reported \in raisedJobs

(* ================== claims about arguments and modes ================== *)
\* the smoothing parameter lies strictly below 0 or strictly above 1
LambdaOutside == args.lambda.num < 0 \/ args.lambda.num > args.lambda.den
NoWorkStarted ==
    /\ singleRuns = 0
    /\ submissions = <<>>
    /\ attempted = {}
    /\ workers = <<>>
    /\ writers = <<>>
    /\ \A k \in KindSet : ~outdir.files[k].written

\* C12: with lambda outside [0, 1] the invocation ends in parseArgs: no
\* solver call, no submission, no collection, no pool, and no directory or
\* file is created or changed; with lambda inside [0, 1], the ends
\* included, parseArgs does not reject it.
C12_LambdaRejectedBeforeWork ==
    /\ [](LambdaOutside => pc \in {"parse_args", "exit"} /\ NoWorkStarted)
    /\ [](pc = "exit" => LambdaOutside /\ err = "parser.error: lambda")
    /\ [][LambdaOutside =>
             /\ tmp' = tmp
             /\ outdir' = outdir
             /\ rootFiles' = rootFiles
             /\ pc' = "exit"]_vars

C12_Witness ==
    /\ pc = "exit"
    /\ args.lambda.num > args.lambda.den
    /\ Mode(args) = "local"
    /\ NumColumns(expression) > 0

C12_WitnessBoundary ==
    /\ pc = "done"
    /\ args.lambda.num = args.lambda.den

(* ===================== claims about the directories =================== *)
CollectPhases == {"collect", "collect_matrix", "collect_gather", "collect_write"}

\* C13: no step removes a sample directory or a result file; the files of
\* a job whose solver has returned stay as they are, whether the run goes
\* on or a failure ends it; the collection changes nothing under the temp
\* directory; and a collection run after a failed local run has, in the
\* merged reactions table, the values of every job whose solver returned.
C13_NothingDeleted ==
    /\ [][/\ \A d \in DOMAIN tmp :
               /\ tmp[d].exists => tmp'[d].exists
               /\ \A k \in KindSet :
                     tmp[d].files[k].state # "absent" => tmp'[d].files[k].state # "absent"
               /\ (d \in DOMAIN solved /\ solved[d] >= 1) => tmp'[d].files = tmp[d].files
               /\ logs[d].present => logs'[d].present
          /\ \A k \in KindSet : rootFiles[k].state # "absent" => rootFiles'[k].state # "absent"
          /\ pc \in CollectPhases => tmp' = tmp /\ logs' = logs /\ rootFiles' = rootFiles]_vars
    /\ [](resumed /\ outdir.files["reactions"].written =>
             \A i \in DOMAIN solved : solved[i] >= 1 =>
                 /\ Readable(i, "reactions")
                 /\ \A r \in FileOf(i, "reactions").table.index :
                       outdir.files["reactions"].table.cols[Offset(i, "reactions") + 1].cell[r]
                           = i + 1)

C13_Witness ==
    /\ resumed
    /\ pc = "done"
    /\ \E i, j \in DOMAIN solved :
          /\ solved[i] = 1
          /\ solved[j] = 0
          /\ tmp[j].files["uptake"].state = "table"
          /\ outdir.files["reactions"].table.cols[Offset(i, "reactions") + 1].cell["r1"] = i + 1

(* ===================== claims about the queue mode ==================== *)
\* C14: in submit-to-queue mode the submissions made so far are the sample
\* jobs 0, 1, ... in order, none depending on anything; when the call has
\* returned there are exactly N of them followed by exactly one collection
\* job whose dependencies are exactly the handles of the N sample jobs; and
\* the call has returned with no job run: no solver call, no pool and no
\* collection in this process.
C14_QueueSubmissions ==
    Mode(args) = "torque" =>
        /\ \A h \in 1..Len(submissions) :
              h <= NumColumns(expression) =>
                  submissions[h] = [kind |-> "sample", index |-> h - 1, deps |-> {}]
        /\ Len(submissions) <= NumColumns(expression) + 1
        /\ pc = "done" =>
              /\ Len(submissions) = NumColumns(expression) + 1
              /\ submissions[Len(submissions)].kind = "collect"
              /\ submissions[Len(submissions)].deps = 1..NumColumns(expression)
              /\ solved = <<>> /\ workers = <<>> /\ singleRuns = 0
              /\ attempted = {} /\ ~completed

C14_Witness ==
    /\ Mode(args) = "torque"
    /\ pc = "done"
    /\ NumColumns(expression) >= 2
    /\ Len(submissions) = NumColumns(expression) + 1

(* ================ claims about the order of the stages ================ *)
\* C15: in a local run, whenever the collection has begun (and from then
\* on), the main process has observed the results of all N jobs, each
\* counted on the progress bar, every task has been handed out, no worker
\* is executing a job and no result is waiting to be observed.
C15_CollectAfterAllJobs ==
    (Mode(args) = "local" /\ pc \in CollectPhases \cup {"completed", "done"}) =>
        /\ yielded = n_samples
        /\ pbar = n_samples
        /\ nextTask = n_samples
        /\ Busy = {}
        /\ results = <<>>
        /\ \A i \in Jobs : started[i] = 1 /\ solved[i] = 1

C15_Witness ==
    /\ Mode(args) = "local"
    /\ pc = "collect_gather"
    /\ n_samples >= 2
    /\ Len(workers) = 2
    /\ ci = 1

(* ============ claims about the directory of a sample ================== *)
\* C16: in a local run the table a returned job i has written is in
\* directory i, the directory of its index, whatever the sample is called;
\* and after a run in which every solver returned, in whatever order, the
\* merged reactions table has N columns, the i-th named after the i-th
\* sample and holding the values of job i on the rows job i wrote and the
\* missing value elsewhere; so has every other merged table for which the
\* jobs wrote their file.
C16_IndexToDirectoryAgree ==
    (Mode(args) = "local" /\ PoolExists) =>
        /\ \A i \in Jobs : solved[i] = 1 =>
              /\ tmp[i].exists
              /\ tmp[i].files["reactions"] = TableFile(SolverTable(i))
        /\ (pc \in {"completed", "done"}) =>
              \A k \in KindSet :
                 (\A i \in Jobs : tmp[i].files[k] = TableFile(SolverTable(i))) =>
                     /\ outdir.files[k].written
                     /\ Len(outdir.files[k].table.cols) = n_samples
                     /\ \A i \in Jobs :
                           LET c == outdir.files[k].table.cols[i + 1]
                           IN  /\ c.name = expression[i]
                               /\ \A r \in outdir.files[k].table.index :
                                     c.cell[r] = IF r \in SolverTable(i).index
                                                 THEN i + 1 ELSE NaN

C16_Witness ==
    /\ Mode(args) = "local"
    /\ pc = "done"
    /\ n_samples = 3
    /\ Len(workers) = 2
    /\ \A k \in KindSet : outdir.files[k].written
    /\ outdir.files["secretions"].table.cols[2].cell["r2"] = 2
    /\ outdir.files["secretions"].table.cols[3].cell["r2"] = NaN

(* ================== claims about the capture files ==================== *)
Executing == {w \in DOMAIN workers : workers[w].pc = "solve"}

\* C17: while the solver of job i executes in a worker, directory i exists
\* and the worker's streams point at the open capture files of directory
\* i, which hold nothing an earlier run or job wrote; a worker has a job
\* exactly while it is not idle; no two executing workers write to the
\* same capture files; and once the solver of job i has ended, the capture
\* files of directory i hold what job i wrote and nothing else.
C17_OutputCaptured ==
    PoolExists =>
        /\ \A w \in Executing :
              LET i == workers[w].job
              IN  /\ tmp[i].exists
                  /\ streams[w] = i
                  /\ logs[i] = [present |-> TRUE, lines |-> <<>>]
        /\ \A w \in DOMAIN workers : (workers[w].pc = "idle") <=> (workers[w].job = None)
        /\ \A v, w \in Executing : streams[v] = streams[w] => v = w
        /\ \A i \in Jobs : (solved[i] = 1 \/ i \in raisedJobs) => logs[i].lines = <<i>>

C17_Witness ==
    /\ Len(workers) = 2
    /\ Executing = {1, 2}
    /\ streams[1] = 2
    /\ streams[2] = 1
    /\ solved[0] = 1
    /\ tmp[1].files["uptake"].state = "table"

(* ======================= claims about termination ===================== *)
WriteErrors == {"IOError: to_csv", "OSError: makedirs"}
Finished ==
    /\ pc = "done"
    /\ completed
    /\ \A i \in Jobs : solved[i] = 1
    /\ attempted = KindSet
    /\ \A k \in KindSet : outdir.files[k].written

\* C18: with the main process and the workers scheduled fairly, a local
\* run (one whose arguments were accepted) in which no solver call raises
\* and no write to the output directory fails ends with every job done,
\* the three tables merged and successful completion logged.
C18_LocalRunFinishes ==
    (/\ Mode(args) = "local"
     /\ ~LambdaOutside
     /\ [](raisedJobs = {})
     /\ [](err \notin WriteErrors))
        => <>Finished

\* the same for a matrix with at least one sample and a pool of at least
\* one process
C18_FinishesGivenSamplesAndPool ==
    (/\ Mode(args) = "local"
     /\ ~LambdaOutside
     /\ NumColumns(expression) > 0
     /\ (args.num_processes = None \/ args.num_processes >= 1)
     /\ [](raisedJobs = {})
     /\ [](err \notin WriteErrors))
        => <>Finished

(* ========================= claims about modes ========================= *)
SingleFlag == args.single_sample # None
QueueFlag == args.torque_queue # {}
NoSolverHere == singleRuns = 0 /\ rootFiles = NoFiles
NoPoolHere == workers = <<>> /\ streams = <<>> /\ num_processes = None
NoQueueHere == submissions = <<>>
NoCollectionHere ==
    /\ pc \notin CollectPhases
    /\ attempted = {}
    /\ \A k \in KindSet : ~outdir.files[k].written

\* C19: whatever flags are given, the invocation does what the first of
\* --single-sample, --torque-queue, --collect that is given says, and a
\* local run if none is: with --single-sample at most one solver call in
\* this process (exactly one once it has returned), no pool, no submission
\* and no collection; else with --torque-queue only submissions; else with
\* --collect only the collection; else no solver call in the main process
\* and no submission, and a collection only after a pool was made.
C19_OneModeByPrecedence ==
    /\ SingleFlag =>
          /\ singleRuns <= 1
          /\ pc \in {"done", "raised"} => singleRuns = 1
          /\ NoPoolHere /\ NoQueueHere /\ NoCollectionHere
    /\ (~SingleFlag /\ QueueFlag) =>
          /\ NoSolverHere /\ NoPoolHere /\ NoCollectionHere
          /\ pc = "done" => submissions # <<>>
    /\ (~SingleFlag /\ ~QueueFlag /\ args.collect) =>
          /\ NoSolverHere /\ NoPoolHere /\ NoQueueHere
          /\ pc = "done" => attempted = KindSet
    /\ (~SingleFlag /\ ~QueueFlag /\ ~args.collect) =>
          /\ NoSolverHere /\ NoQueueHere
          /\ (pc \in CollectPhases \/ attempted # {}) => PoolExists
          /\ pc = "done" => PoolExists /\ attempted = KindSet

C19_Witness ==
    /\ SingleFlag /\ QueueFlag /\ args.collect
    /\ pc = "done"
    /\ singleRuns = 1
    /\ rootFiles["uptake"].state = "table"

C19_WitnessQueue == ~SingleFlag /\ QueueFlag /\ args.collect /\ pc = "done"

(* ================ claims about the columns of a file ================== *)
\* the merged table of kind k has exactly the N columns named after the
\* samples, in matrix order
IdentifierNamed(k) == ColumnNames(outdir.files[k].table) = expression
ConformantKind(k) == \A i \in Samples : Conformant(FileOf(i, k), expression[i])

\* the columns of a written merged table are those of the files: their
\* number is the sum over the samples of the number of data columns of the
\* sample's file (1 if it could not be read), and their names are the
\* names in the files (the sample's name if the file could not be read)
ColumnsFromFiles(k) ==
    LET t == outdir.files[k].table
    IN  /\ Len(t.cols) = Offset(n_samples, k)
        /\ \A i \in Samples :
              \A j \in 1..Width(i, k) :
                 t.cols[Offset(i, k) + j].name =
                     IF Readable(i, k) THEN FileOf(i, k).table.cols[j].name
                     ELSE expression[i]

\* C20 as stated: the columns of a written merged table are those of the
\* files, and it has exactly the N identifier-named columns only when every
\* readable file of the kind has exactly one data column named after its
\* sample.
C20_ColumnsFromFiles ==
    \A k \in KindSet :
        (n_samples = NumColumns(expression) /\ outdir.files[k].written) =>
            /\ ColumnsFromFiles(k)
            /\ IdentifierNamed(k) => ConformantKind(k)

\* C20 amended: the columns of a written merged table are those of the
\* files; it has exactly the N identifier-named columns if every readable
\* file of the kind has exactly one data column named after its sample;
\* and only then, provided every readable file has at least one data column.
C20_ColumnsFromFilesAmended ==
    \A k \in KindSet :
        (n_samples = NumColumns(expression) /\ outdir.files[k].written) =>
            /\ ColumnsFromFiles(k)
            /\ ConformantKind(k) => IdentifierNamed(k)
            /\ (/\ \A i \in Samples : Readable(i, k) => Width(i, k) >= 1
                /\ IdentifierNamed(k)) => ConformantKind(k)

C20_Witness ==
    /\ pc = "done"
    /\ n_samples = 2
    /\ Width(0, "reactions") = 2
    /\ ~Readable(1, "reactions")
    /\ Len(outdir.files["reactions"].table.cols) = 3
    /\ ~IdentifierNamed("reactions")
====
